---- MODULE Spec2Model ----
(***************************************************************************)
(* Model of the wrangler -> Alchemy transformation pipeline of             *)
(* alchemy-migrator: ConfigTransformer.transform, ResourceMapper and       *)
(* BindingTransformer.transformBindings, over the normalized configuration *)
(* that parsers/index.ts (normalizeConfig, mergeConfigs) hands to them.    *)
(*                                                                         *)
(* Strings are sequences of characters.  A character is a one-character    *)
(* TLA+ string for ASCII and the name of its code point ("U+212A") for the *)
(* non-ASCII characters the model uses.                                    *)
(***************************************************************************)
EXTENDS Integers, Sequences, FiniteSets, TLC

(***************************************************************************)
(* Bounds of the model.                                                    *)
(***************************************************************************)
\* items (binding declarations, plain variables, main) of the base unit
MaxItems == 2

(***************************************************************************)
(* Characters and the case mappings of String.prototype.toLowerCase /      *)
(* toUpperCase (Unicode default case conversion, SpecialCasing included).  *)
(***************************************************************************)
UpperLetters ==
    <<"A","B","C","D","E","F","G","H","I","J","K","L","M",
      "N","O","P","Q","R","S","T","U","V","W","X","Y","Z">>

LowerLetters ==
    <<"a","b","c","d","e","f","g","h","i","j","k","l","m",
      "n","o","p","q","r","s","t","u","v","w","x","y","z">>

Digits == {"0","1","2","3","4","5","6","7","8","9"}

\* U+212A KELVIN SIGN, U+0130 LATIN CAPITAL LETTER I WITH DOT ABOVE,
\* U+0307 COMBINING DOT ABOVE, U+00C9 / U+00E9 E WITH ACUTE,
\* U+017F LATIN SMALL LETTER LONG S
NonAscii == {"U+212A", "U+0130", "U+0307", "U+00C9", "U+00E9", "U+017F"}

IsAscii(c) == c \notin NonAscii

Punctuation == {"_", "-", ":", ".", "/", " "}

\* every character of the model
Alphabet ==
    {UpperLetters[i] : i \in 1..26} \cup {LowerLetters[i] : i \in 1..26}
    \cup Digits \cup Punctuation \cup NonAscii

IsUpper(c) == \E i \in 1..26 : UpperLetters[i] = c
IsLower(c) == \E i \in 1..26 : LowerLetters[i] = c

LetterIndex(letters, c) == CHOOSE i \in 1..26 : letters[i] = c

\* toLowerCase of one character: a string (U+0130 lowercases to two code units)
ToLowerChar ==
    [c \in Alphabet |->
        IF IsUpper(c) THEN <<LowerLetters[LetterIndex(UpperLetters, c)]>>
        ELSE IF c = "U+212A" THEN <<"k">>
        ELSE IF c = "U+0130" THEN <<"i", "U+0307">>
        ELSE IF c = "U+00C9" THEN <<"U+00E9">>
        ELSE <<c>>]

\* toUpperCase of one character
ToUpperChar ==
    [c \in Alphabet |->
        IF IsLower(c) THEN <<UpperLetters[LetterIndex(LowerLetters, c)]>>
        ELSE IF c = "U+00E9" THEN <<"U+00C9">>
        ELSE IF c = "U+017F" THEN <<"S">>
        ELSE <<c>>]

RECURSIVE toLowerCase(_)
toLowerCase(s) ==
    IF s = <<>> THEN <<>>
    ELSE ToLowerChar[Head(s)] \o toLowerCase(Tail(s))

\* Canonicalize of a RegExp with the i flag and without the u flag:
\* the upper-case form, unless it is not one code unit or it would map a
\* non-ASCII character to an ASCII one.
Canonicalize ==
    [ch \in Alphabet |->
        LET u == ToUpperChar[ch] IN
        IF Len(u) # 1 THEN ch
        ELSE IF ~IsAscii(ch) /\ IsAscii(u[1]) THEN ch
        ELSE u[1]]

\* the characters of the class [a-z0-9_] under the i flag
WordClass ==
    {ch \in Alphabet :
        \E a \in {LowerLetters[i] : i \in 1..26} \cup Digits \cup {"_"} :
            Canonicalize[a] = Canonicalize[ch]}

InWordClass(ch) == ch \in WordClass

\* s.replace(/[^a-z0-9_]/gi, "_")
RECURSIVE ReplaceNonWord(_)
ReplaceNonWord(s) ==
    IF s = <<>> THEN <<>>
    ELSE <<IF InWordClass(Head(s)) THEN Head(s) ELSE "_">> \o ReplaceNonWord(Tail(s))


(***************************************************************************)
(* Helpers: string literals, JavaScript objects and Maps.                  *)
(***************************************************************************)
\* the value of an expression that evaluates to undefined
Undefined == <<"<undefined>">>

\* JavaScript truthiness of a string or undefined
Truthy(s) == s # Undefined /\ s # <<>>

\* obj.f, undefined when the property is missing
Get(obj, f) == IF f \in DOMAIN obj THEN obj[f] ELSE Undefined

\* a missing object-valued property: every obj?.f of it is undefined
NoObject == <<>>

GetObject(obj, f) == IF f \in DOMAIN obj THEN obj[f] ELSE NoObject

\* a missing array-valued property, where the code treats it as no elements
GetList(obj, f) == IF f \in DOMAIN obj THEN obj[f] ELSE <<>>

\* String(n) for the small non-negative integers the model produces
RECURSIVE DecimalStr(_)
DecimalStr(n) ==
    LET d == <<"0","1","2","3","4","5","6","7","8","9">> IN
    IF n < 10 THEN <<d[n + 1]>> ELSE DecimalStr(n \div 10) \o <<d[(n % 10) + 1]>>

\* A plain object used as a dictionary, or a Map: the entries [k, v] in
\* insertion order, no two with the same key.
Keys(m) == {m[i].k : i \in 1..Len(m)}

Has(m, key) == key \in Keys(m)

Lookup(m, key) ==
    IF Has(m, key) THEN m[CHOOSE i \in 1..Len(m) : m[i].k = key].v ELSE Undefined

\* m.set(key, value) / obj[key] = value: an existing key keeps its place
Put(m, key, value) ==
    IF Has(m, key)
    THEN [i \in 1..Len(m) |-> IF m[i].k = key THEN [k |-> key, v |-> value] ELSE m[i]]
    ELSE Append(m, [k |-> key, v |-> value])

RECURSIVE Join(_, _)
Join(parts, sep) ==
    IF parts = <<>> THEN <<>>
    ELSE IF Len(parts) = 1 THEN parts[1]
    ELSE parts[1] \o sep \o Join(Tail(parts), sep)

(***************************************************************************)
(* ResourceMapper (src/transformers/resource-mapper.ts).                   *)
(* A declaration is a record of the fields the mapper reads; the optional  *)
(* pass-through fields (jurisdiction, migrations_dir, script_name) are     *)
(* left out.  mo is the ResourceMappingOptions record.                     *)
(***************************************************************************)
ResourceMapper_sanitizeId(id) == ReplaceNonWord(id)

\* generateVariableName with the zero-based index as suffix
generateVariableName_ZeroBased(prefix, id, index) ==
    IF id # <<>> /\ id # <<"b","i","n","d","i","n","g">> /\ id # prefix
    THEN id
    ELSE prefix \o (IF index > 0 THEN DecimalStr(index) ELSE <<>>)

generateVariableName(prefix, id, index) ==
    IF id # <<>> /\ id # <<"b","i","n","d","i","n","g">> /\ id # prefix
    THEN id
    ELSE prefix \o (IF index > 0 THEN DecimalStr(index + 1) ELSE <<>>)

\* generateResourceName with the stage pushed whenever the option is given,
\* the empty string included
generateResourceName_StageWhenGiven(mo, type, id) ==
    LET named == IF id # <<>> /\ id # type THEN <<mo.appName, id>> ELSE <<mo.appName, type>>
        parts == IF mo.stage # Undefined THEN Append(named, mo.stage) ELSE named
    IN  Join(parts, <<"-">>)

\* generateResourceName without the stage
generateResourceName_NoStage(mo, type, id) ==
    Join(IF id # <<>> /\ id # type THEN <<mo.appName, id>> ELSE <<mo.appName, type>>, <<"-">>)

generateResourceName(mo, type, id) ==
    LET named == IF id # <<>> /\ id # type THEN <<mo.appName, id>> ELSE <<mo.appName, type>>
        parts == IF Truthy(mo.stage) THEN Append(named, mo.stage) ELSE named
    IN  Join(parts, <<"-">>)

T_KV == <<"K","V","N","a","m","e","s","p","a","c","e">>
T_R2 == <<"R","2","B","u","c","k","e","t">>
T_D1 == <<"D","1","D","a","t","a","b","a","s","e">>
T_Queue == <<"Q","u","e","u","e">>
T_DO == <<"D","u","r","a","b","l","e","O","b","j","e","c","t","N","a","m","e","s","p","a","c","e">>

\* the index passed by Array.prototype.map is zero-based
mapKVNamespaces(mo, kvNamespaces) ==
    [i \in 1..Len(kvNamespaces) |->
        LET kv == kvNamespaces[i]
            id == ResourceMapper_sanitizeId(toLowerCase(kv.binding))
            title == IF mo.preserveNames /\ Truthy(Get(kv, "id"))
                     THEN kv.binding
                     ELSE generateResourceName(mo, <<"k","v">>, id)
        IN  [type |-> T_KV, id |-> id,
             variableName |-> generateVariableName(<<"k","v">>, id, i - 1),
             adopt |-> mo.adopt,
             props |-> [title |-> title, adopt |-> mo.adopt]]]

mapR2Buckets(mo, r2Buckets) ==
    [i \in 1..Len(r2Buckets) |->
        LET bucket == r2Buckets[i]
            id == ResourceMapper_sanitizeId(toLowerCase(bucket.binding))
            name == IF mo.preserveNames
                    THEN bucket.bucket_name
                    ELSE generateResourceName(mo, <<"b","u","c","k","e","t">>, id)
        IN  [type |-> T_R2, id |-> id,
             variableName |-> generateVariableName(<<"b","u","c","k","e","t">>, id, i - 1),
             adopt |-> mo.adopt,
             props |-> [name |-> name, adopt |-> mo.adopt]]]

mapD1Databases(mo, d1Databases) ==
    [i \in 1..Len(d1Databases) |->
        LET db == d1Databases[i]
            id == ResourceMapper_sanitizeId(toLowerCase(db.binding))
            name == IF mo.preserveNames
                    THEN db.database_name
                    ELSE generateResourceName(mo, <<"d","b">>, id)
        IN  [type |-> T_D1, id |-> id,
             variableName |-> generateVariableName(<<"d","b">>, id, i - 1),
             adopt |-> mo.adopt,
             props |-> [name |-> name, adopt |-> mo.adopt]]]

\* queues is the queues object of the unit, NoObject when it has none
mapQueues(mo, queues) ==
    LET producers == IF "producers" \notin DOMAIN queues THEN <<>> ELSE queues.producers
    IN  [i \in 1..Len(producers) |->
        LET queue == producers[i]
            id == ResourceMapper_sanitizeId(toLowerCase(queue.binding))
            name == IF mo.preserveNames
                    THEN queue.queue
                    ELSE generateResourceName(mo, <<"q","u","e","u","e">>, id)
        IN  [type |-> T_Queue, id |-> id,
             variableName |-> generateVariableName(<<"q","u","e","u","e">>, id, i - 1),
             adopt |-> mo.adopt,
             props |-> [name |-> name, adopt |-> mo.adopt]]]

\* mapDurableObjects with the adopt option applied
mapDurableObjects_Adopting(mo, durableObjects) ==
    LET dos == IF "bindings" \notin DOMAIN durableObjects
               THEN <<>> ELSE durableObjects.bindings
    IN  [i \in 1..Len(dos) |->
        LET do_ == dos[i]
            id == ResourceMapper_sanitizeId(toLowerCase(do_.name))
        IN  [type |-> T_DO, id |-> id,
             variableName |-> generateVariableName(<<"d","o">>, id, i - 1),
             adopt |-> mo.adopt,
             props |-> [className |-> do_.class_name]]]

mapDurableObjects(mo, durableObjects) ==
    LET dos == IF "bindings" \notin DOMAIN durableObjects
               THEN <<>> ELSE durableObjects.bindings
    IN  [i \in 1..Len(dos) |->
        LET do_ == dos[i]
            id == ResourceMapper_sanitizeId(toLowerCase(do_.name))
        IN  [type |-> T_DO, id |-> id,
             variableName |-> generateVariableName(<<"d","o">>, id, i - 1),
             adopt |-> FALSE,
             props |-> [className |-> do_.class_name]]]

(***************************************************************************)
(* BindingTransformer (src/transformers/binding-transformer.ts, the        *)
(* second, current definition of the class).                               *)
(***************************************************************************)
BindingTransformer_sanitizeId(id) == toLowerCase(ReplaceNonWord(id))

\* One element of a secret pattern: a character class, possibly optional.
Lit(c) == [chars |-> {c}, opt |-> FALSE]

OptSep == [chars |-> {"_", "-"}, opt |-> TRUE]

secretPatterns ==
    << <<Lit("a"), Lit("p"), Lit("i"), OptSep, Lit("k"), Lit("e"), Lit("y")>>,
       <<Lit("s"), Lit("e"), Lit("c"), Lit("r"), Lit("e"), Lit("t")>>,
       <<Lit("p"), Lit("a"), Lit("s"), Lit("s"), Lit("w"), Lit("o"), Lit("r"), Lit("d")>>,
       <<Lit("t"), Lit("o"), Lit("k"), Lit("e"), Lit("n")>>,
       <<Lit("p"), Lit("r"), Lit("i"), Lit("v"), Lit("a"), Lit("t"), Lit("e"), OptSep,
         Lit("k"), Lit("e"), Lit("y")>>,
       <<Lit("a"), Lit("u"), Lit("t"), Lit("h")>>,
       <<Lit("c"), Lit("r"), Lit("e"), Lit("d"), Lit("e"), Lit("n"), Lit("t"), Lit("i"),
         Lit("a"), Lit("l")>> >>

\* the pattern p matches s from position i on (backtracking over the
\* optional elements), characters compared under the i flag
RECURSIVE MatchAt(_, _, _)
MatchAt(p, s, i) ==
    IF p = <<>> THEN TRUE
    ELSE \/ /\ i <= Len(s)
            /\ \E c \in Head(p).chars : Canonicalize[c] = Canonicalize[s[i]]
            /\ MatchAt(Tail(p), s, i + 1)
         \/ /\ Head(p).opt
            /\ MatchAt(Tail(p), s, i)

\* pattern.test(key)
RegExpTest(p, key) == \E i \in 1..(Len(key) + 1) : MatchAt(p, key, i)

shouldBeSecret(key) ==
    \E n \in 1..Len(secretPatterns) : RegExpTest(secretPatterns[n], key)

\* The body of one "for (const x of list)" loop over resource declarations:
\* look the key up, and set bindings[name] when it is found.
RECURSIVE BindDeclared(_, _, _, _, _)
BindDeclared(bindings, resources, prefix, list, nameField) ==
    IF list = <<>> THEN bindings
    ELSE LET name == Head(list)[nameField]
             id == BindingTransformer_sanitizeId(name)
             resourceVar == Lookup(resources, prefix \o <<":">> \o id)
             next == IF Truthy(resourceVar)
                     THEN Put(bindings, name, [type |-> "resource", resourceRef |-> resourceVar])
                     ELSE bindings
         IN  BindDeclared(next, resources, prefix, Tail(list), nameField)

\* VarBinding with the secret test also applied to the value
VarBinding_SecretByValue(key, value) ==
    IF shouldBeSecret(key) \/ value = [type |-> "string", v |-> "secret-token"]
    THEN [type |-> "secret", secretName |-> key]
    ELSE IF value.type = "string" THEN [type |-> "plainText", value |-> value]
    ELSE [type |-> "json", value |-> value]

\* VarBinding without the typeof test
VarBinding_AlwaysText(key, value) ==
    IF shouldBeSecret(key) THEN [type |-> "secret", secretName |-> key]
    ELSE [type |-> "plainText", value |-> value]

\* the binding of one plain variable; a value is [type, v], type being the
\* JavaScript typeof of the value
VarBinding(key, value) ==
    IF shouldBeSecret(key) THEN [type |-> "secret", secretName |-> key]
    ELSE IF value.type = "string" THEN [type |-> "plainText", value |-> value]
    ELSE [type |-> "json", value |-> value]

\* BindVars that keeps in the secrets set only the names it adds
RECURSIVE BindVars_FreshSecrets(_, _)
BindVars_FreshSecrets(ctx, vars) ==
    IF vars = <<>> THEN ctx
    ELSE LET key == Head(vars).k
             b == VarBinding(key, Head(vars).v)
             secrets == IF b.type = "secret" THEN <<key>> ELSE <<>>
         IN  BindVars_FreshSecrets([bindings |-> Put(ctx.bindings, key, b), secrets |-> secrets],
                                   Tail(vars))

\* the loop over Object.entries(config.vars): ctx is [bindings, secrets]
RECURSIVE BindVars(_, _)
BindVars(ctx, vars) ==
    IF vars = <<>> THEN ctx
    ELSE LET key == Head(vars).k
             b == VarBinding(key, Head(vars).v)
             secrets == IF b.type = "secret" /\ ~(\E i \in 1..Len(ctx.secrets) : ctx.secrets[i] = key)
                        THEN Append(ctx.secrets, key) ELSE ctx.secrets
         IN  BindVars([bindings |-> Put(ctx.bindings, key, b), secrets |-> secrets], Tail(vars))

P_kv == <<"k","v">>
P_r2 == <<"r","2">>
P_d1 == <<"d","1">>
P_queue == <<"q","u","e","u","e">>
P_durableobject == <<"d","u","r","a","b","l","e","o","b","j","e","c","t">>
P_hyperdrive == <<"h","y","p","e","r","d","r","i","v","e">>
P_ai == <<"a","i">>
P_analytics == <<"a","n","a","l","y","t","i","c","s","e","n","g","i","n","e","d","a","t","a","s","e","t">>
P_browser == <<"b","r","o","w","s","e","r","r","e","n","d","e","r","i","n","g">>
P_dispatch == <<"d","i","s","p","a","t","c","h">>

\* a single optional binding object (config.ai, config.browser) as a list
One(config, f) == IF f \in DOMAIN config THEN <<config[f]>> ELSE <<>>

\* transformBindings(config, context): the bindings object and the secrets
\* set of the context after the call
transformBindings(config, context) ==
    LET b1 == BindDeclared(<<>>, context.resources, P_kv,
                           GetList(config, "kv_namespaces"), "binding")
        b2 == BindDeclared(b1, context.resources, P_r2,
                           GetList(config, "r2_buckets"), "binding")
        b3 == BindDeclared(b2, context.resources, P_d1,
                           GetList(config, "d1_databases"), "binding")
        b4 == BindDeclared(b3, context.resources, P_queue,
                           GetList(GetObject(config, "queues"), "producers"), "binding")
        b5 == BindDeclared(b4, context.resources, P_durableobject,
                           GetList(GetObject(config, "durable_objects"), "bindings"), "name")
        v  == BindVars([bindings |-> b5, secrets |-> context.secrets],
                       GetList(config, "vars"))
        b6 == BindDeclared(v.bindings, context.resources, P_hyperdrive,
                           GetList(config, "hyperdrive"), "binding")
        b7 == BindDeclared(b6, context.resources, P_ai, One(config, "ai"), "binding")
        b8 == BindDeclared(b7, context.resources, P_analytics,
                           GetList(config, "analytics_engine_datasets"), "binding")
        b9 == BindDeclared(b8, context.resources, P_browser, One(config, "browser"), "binding")
        b10 == BindDeclared(b9, context.resources, P_dispatch,
                            GetList(config, "dispatch_namespaces"), "binding")
    IN  [bindings |-> b10, secrets |-> v.secrets]

(***************************************************************************)
(* ConfigTransformer (src/transformers/index.ts).                          *)
(* A configuration unit is a record of the fields it declares (a missing   *)
(* property is a missing field); the normalized configuration is the base  *)
(* unit with the field environments, a dictionary of units.  Options is a  *)
(* record of the options given.  compatibility_flags and observability     *)
(* are passed through untouched and left out.                              *)
(***************************************************************************)
\* s.replace(/a1|a2|.../gi, ""): at each position the first alternative
\* that matches is removed
RECURSIVE RemoveAll(_, _)
RemoveAll(s, alts) ==
    IF s = <<>> THEN <<>>
    ELSE LET hit == {n \in 1..Len(alts) :
                        MatchAt([i \in 1..Len(alts[n]) |-> Lit(alts[n][i])], s, 1)}
         IN  IF hit = {} THEN <<Head(s)>> \o RemoveAll(Tail(s), alts)
             ELSE LET n == CHOOSE m \in hit : \A o \in hit : m <= o
                  IN  RemoveAll(SubSeq(s, Len(alts[n]) + 1, Len(s)), alts)

StrippedWords ==
    << <<"n","a","m","e","s","p","a","c","e">>,
       <<"d","a","t","a","b","a","s","e">>,
       <<"b","u","c","k","e","t">> >>

\* resourceKey with the words "kv", "r2" and "d1" taken for one prefix
resourceKey_OnePrefix(resource) ==
    LET prefix == RemoveAll(toLowerCase(resource.type), StrippedWords)
    IN  (IF Len(prefix) = 2 THEN <<"k","v">> ELSE prefix) \o <<":">> \o resource.id

\* the key of a resource in the lookup map
resourceKey(resource) ==
    RemoveAll(toLowerCase(resource.type), StrippedWords) \o <<":">> \o resource.id

\* the loop that builds resourceMap
RECURSIVE buildResourceMap(_, _)
buildResourceMap(resourceMap, resources) ==
    IF resources = <<>> THEN resourceMap
    ELSE buildResourceMap(Put(resourceMap, resourceKey(Head(resources)),
                              Head(resources).variableName),
                          Tail(resources))

transformRoutes(config) ==
    IF "routes" \notin DOMAIN config THEN Undefined
    ELSE [i \in 1..Len(config.routes) |-> [pattern |-> config.routes[i]]]

\* the consumer settings are copied field by field and left out
transformQueueConsumers(consumers, resourceMap) ==
    IF consumers = <<>> THEN Undefined
    ELSE [i \in 1..Len(consumers) |->
            LET ref == Lookup(resourceMap, P_queue \o <<":">> \o consumers[i].queue)
            IN  [queueRef |-> IF Truthy(ref) THEN ref ELSE consumers[i].queue]]

\* extractPlainVars without the secrets test
RECURSIVE extractPlainVars_KeepingSecrets(_, _)
extractPlainVars_KeepingSecrets(vars, secrets) ==
    IF vars = <<>> THEN <<>>
    ELSE LET e == Head(vars)
             rest == extractPlainVars_KeepingSecrets(Tail(vars), secrets)
         IN  IF e.v.type = "string" THEN <<[k |-> e.k, v |-> e.v]>> \o rest ELSE rest

RECURSIVE extractPlainVars(_, _)
extractPlainVars(vars, secrets) ==
    IF vars = <<>> THEN <<>>
    ELSE LET e == Head(vars)
             rest == extractPlainVars(Tail(vars), secrets)
         IN  IF ~(\E i \in 1..Len(secrets) : secrets[i] = e.k) /\ e.v.type = "string"
             THEN <<[k |-> e.k, v |-> e.v]>> \o rest
             ELSE rest

\* targetEnvironment names an environment the configuration does not have:
\* targetConfig is undefined and reading targetConfig.kv_namespaces throws
TargetMissing(wranglerConfig, options) ==
    /\ Truthy(Get(options, "targetEnvironment"))
    /\ ~Has(wranglerConfig.environments, options.targetEnvironment)

targetConfigOf(wranglerConfig, options) ==
    IF Truthy(Get(options, "targetEnvironment"))
    THEN Lookup(wranglerConfig.environments, options.targetEnvironment)
    ELSE wranglerConfig

\* mapperOptions with adopt defaulting to false
mapperOptions_AdoptOff(wranglerConfig, options) ==
    [adopt |-> IF "adopt" \in DOMAIN options THEN options.adopt ELSE FALSE,
     preserveNames |-> IF "preserveNames" \in DOMAIN options
                       THEN options.preserveNames ELSE TRUE,
     stage |-> Get(options, "stage"),
     appName |-> IF Truthy(Get(options, "appName"))
                 THEN options.appName ELSE wranglerConfig.name]

mapperOptions(wranglerConfig, options) ==
    [adopt |-> IF "adopt" \in DOMAIN options THEN options.adopt ELSE TRUE,
     preserveNames |-> IF "preserveNames" \in DOMAIN options
                       THEN options.preserveNames ELSE TRUE,
     stage |-> Get(options, "stage"),
     appName |-> IF Truthy(Get(options, "appName"))
                 THEN options.appName ELSE wranglerConfig.name]

\* mapResources with the queues spread first
mapResources_QueuesFirst(mo, targetConfig) ==
    mapQueues(mo, GetObject(targetConfig, "queues"))
    \o mapKVNamespaces(mo, GetList(targetConfig, "kv_namespaces"))
    \o mapR2Buckets(mo, GetList(targetConfig, "r2_buckets"))
    \o mapD1Databases(mo, GetList(targetConfig, "d1_databases"))
    \o mapDurableObjects(mo, GetObject(targetConfig, "durable_objects"))

mapResources(mo, targetConfig) ==
    mapKVNamespaces(mo, GetList(targetConfig, "kv_namespaces"))
    \o mapR2Buckets(mo, GetList(targetConfig, "r2_buckets"))
    \o mapD1Databases(mo, GetList(targetConfig, "d1_databases"))
    \o mapQueues(mo, GetObject(targetConfig, "queues"))
    \o mapDurableObjects(mo, GetObject(targetConfig, "durable_objects"))

\* transform is written as a chain of operators, one per step of the
\* method, each handing the values computed so far to the next.
\* The last step: the worker and the returned model (with the
\* bindingContext that was built)
buildResult(mo, targetConfig, resources, resourceMap, tb) ==
    LET worker ==
            [id |-> <<"w","o","r","k","e","r">>,
             variableName |-> <<"w","o","r","k","e","r">>,
             props |->
                [name |-> IF mo.preserveNames THEN Get(targetConfig, "name")
                          ELSE IF Truthy(mo.stage) THEN mo.appName \o <<"-">> \o mo.stage
                          ELSE mo.appName,
                 entrypoint |-> IF Truthy(Get(targetConfig, "main")) THEN targetConfig.main
                                ELSE <<".","/","s","r","c","/","i","n","d","e","x",".","j","s">>,
                 compatibilityDate |-> Get(targetConfig, "compatibility_date")],
             bindings |-> tb.bindings,
             routes |-> transformRoutes(targetConfig),
             crons |-> Get(GetObject(targetConfig, "triggers"), "crons"),
             eventSources |->
                transformQueueConsumers(
                    GetList(GetObject(targetConfig, "queues"), "consumers"), resourceMap)]
    IN  [outcome |-> "returned",
         result |-> [appName |-> mo.appName,
                     stage |-> mo.stage,
                     resources |-> resources,
                     workers |-> <<worker>>,
                     secrets |-> tb.secrets,
                     plainTextVars |-> extractPlainVars(GetList(targetConfig, "vars"), tb.secrets)],
         context |-> [resources |-> resourceMap, secrets |-> tb.secrets]]


\* transform from "Transform bindings" on
bindResources(mo, targetConfig, resources, resourceMap) ==
    buildResult(mo, targetConfig, resources, resourceMap,
       transformBindings(targetConfig, [resources |-> resourceMap, secrets |-> <<>>]))

\* transform from "Build resource lookup map" on
indexResources(mo, targetConfig, resources) ==
    bindResources(mo, targetConfig, resources, buildResourceMap(<<>>, resources))

\* transform from "Map all resources" on
transformTarget(mo, targetConfig) ==
    indexResources(mo, targetConfig, mapResources(mo, targetConfig))

\* transform(wranglerConfig, options): what the call returns, or that it
\* threw
transform(wranglerConfig, options) ==
    IF TargetMissing(wranglerConfig, options)
    THEN [outcome |-> "threw"]
    ELSE transformTarget(mapperOptions(wranglerConfig, options),
                         targetConfigOf(wranglerConfig, options))

(***************************************************************************)
(* normalizeConfig and mergeConfigs (src/parsers/index.ts).                *)
(***************************************************************************)
\* Spread in which a key of a keeps the value it has in a
RECURSIVE Spread_BaseWins(_, _)
Spread_BaseWins(a, b) ==
    IF b = <<>> THEN a
    ELSE Spread_BaseWins(IF Has(a, Head(b).k) THEN a ELSE Put(a, Head(b).k, Head(b).v),
                         Tail(b))

\* {...a, ...b} of two dictionaries: the keys of a keep their place
RECURSIVE Spread(_, _)
Spread(a, b) ==
    IF b = <<>> THEN a ELSE Spread(Put(a, Head(b).k, Head(b).v), Tail(b))

\* {...a, ...b} of two units
Overlay(a, b) ==
    [f \in DOMAIN a \cup DOMAIN b |-> IF f \in DOMAIN b THEN b[f] ELSE a[f]]

ReplacedLists == {"kv_namespaces", "r2_buckets", "d1_databases"}

mergeConfigs(base, override) ==
    LET spread == Overlay(base, override)
    IN  [f \in DOMAIN spread \cup {"vars"} |->
            IF f = "vars" THEN Spread(GetList(base, "vars"), GetList(override, "vars"))
            ELSE IF f \in ReplacedLists /\ f \in DOMAIN override THEN override[f]
            ELSE spread[f]]

\* the date normalizeConfig reads from the clock when the configuration
\* has no compatibility_date
Today == <<"2","0","2","6","-","0","1","-","0","1">>

RECURSIVE mergeEnvironments(_, _)
mergeEnvironments(baseConfig, env) ==
    IF env = <<>> THEN <<>>
    ELSE <<[k |-> Head(env).k, v |-> mergeConfigs(baseConfig, Head(env).v)]>>
         \o mergeEnvironments(baseConfig, Tail(env))

\* _meta is not read by the transformers and left out
normalizeConfig(config) ==
    LET baseConfig == [f \in DOMAIN config \ {"env"} |-> config[f]]
        defaults ==
            [name |-> IF Truthy(Get(config, "name")) THEN config.name
                      ELSE <<"u","n","n","a","m","e","d","-","w","o","r","k","e","r">>,
             main |-> IF Truthy(Get(config, "main")) THEN config.main
                      ELSE <<"s","r","c","/","i","n","d","e","x",".","j","s">>,
             compatibility_date |->
                      IF Truthy(Get(config, "compatibility_date"))
                      THEN config.compatibility_date ELSE Today,
             environments |-> mergeEnvironments(baseConfig, GetList(config, "env"))]
    IN  Overlay(baseConfig, defaults)

(***************************************************************************)
(* validateConfig (src/validators/config-validator.ts).                    *)
(***************************************************************************)
\* the names handed to addBinding, in the order of the calls
RegisteredNames(config) ==
    LET of(list) == [i \in 1..Len(list) |-> list[i].binding]
    IN  of(GetList(config, "kv_namespaces"))
        \o of(GetList(config, "r2_buckets"))
        \o of(GetList(config, "d1_databases"))
        \o of(GetList(GetObject(config, "queues"), "producers"))

\* the errors addBinding pushes: one for every name already in bindingNames
DuplicateErrors(names) ==
    LET seen(i) == {names[j] : j \in 1..(i - 1)}
        dup == {i \in 1..Len(names) : names[i] \in seen(i)}
        RECURSIVE inOrder(_)
        inOrder(i) ==
            IF i > Len(names) THEN <<>>
            ELSE (IF i \in dup THEN <<[error |-> "Duplicate binding name", name |-> names[i]]>>
                  ELSE <<>>) \o inOrder(i + 1)
    IN  inOrder(1)

validateConfig(config) ==
    LET errors ==
            (IF Truthy(Get(config, "name")) THEN <<>>
             ELSE <<[error |-> "Missing required field", name |-> <<"n","a","m","e">>]>>)
            \o DuplicateErrors(RegisteredNames(config))
        WarningFor(f, listTyped, text) ==
            IF f \in DOMAIN config /\ (listTyped => config[f] # <<>>) THEN <<text>> ELSE <<>>
        warnings ==
            WarningFor("services", TRUE,
                       "Service bindings require manual configuration in Alchemy")
            \o WarningFor("unsafe", FALSE,
                          "Unsafe bindings may require manual migration")
            \o WarningFor("site", FALSE,
                          "Static site configuration should use Alchemy Assets resource")
            \o WarningFor("tail_consumers", TRUE,
                          "Tail consumers require manual configuration")
    IN  [valid |-> errors = <<>>, errors |-> errors, warnings |-> warnings]

(***************************************************************************)
(* The configurations the model runs on: what WranglerConfigSchema         *)
(* (src/parsers/schema.ts) accepts, drawn from small pools.                *)
(***************************************************************************)
N_KV == <<"K","V">>
N_kv == <<"k","v">>
N_A_B == <<"A","-","B">>
N_a_b == <<"a","_","b">>
N_CACHE == <<"C","A","C","H","E">>
N_Kelvin == <<"U+212A">>
N_BINDING == <<"B","I","N","D","I","N","G">>
N_BUCKET == <<"B","U","C","K","E","T">>
N_DB == <<"D","B">>
N_QUEUE == <<"Q","U","E","U","E">>

PlatformId == <<"a","b","c","1","2","3">>

KVDecls ==
    {[binding |-> n, id |-> PlatformId] : n \in {N_KV, N_kv, N_A_B, N_a_b, N_Kelvin}}
    \cup {[binding |-> N_CACHE]}

R2Decls == {[binding |-> n, bucket_name |-> <<"u","p">>] : n \in {N_KV, N_BUCKET}}

D1Decls == {[binding |-> n, database_name |-> <<"m","a","i","n">>] : n \in {N_DB, N_A_B}}

QueueDecls == {[binding |-> n, queue |-> <<"t","a","s","k","s">>] : n \in {N_QUEUE, N_Kelvin}}

DODecls == {[name |-> n, class_name |-> <<"R","o","o","m">>] : n \in {N_BINDING, N_kv}}

V_API_KEY == <<"A","P","I","_","K","E","Y">>
V_API_URL == <<"A","P","I","_","U","R","L">>
V_AUTHOR == <<"A","U","T","H","O","R">>
\* "TOKEN" written with U+212A for the K
V_TOKEN_Kelvin == <<"T","O","U+212A","E","N">>

\* z.union([z.string(), z.number(), z.boolean()]); the tests also pass objects
Str_x == [type |-> "string", v |-> "x"]
Str_secret == [type |-> "string", v |-> "secret-token"]
Num_5 == [type |-> "number", v |-> "5"]
Bool_true == [type |-> "boolean", v |-> "true"]
Obj_foo == [type |-> "object", v |-> "{foo:bar}"]

VarValues == {Str_x, Str_secret, Num_5, Bool_true, Obj_foo}

\* the plain variables a unit may declare
VarItems ==
    {<<V_API_KEY, Str_x>>, <<V_API_KEY, Num_5>>,
     <<V_API_URL, Str_x>>, <<V_API_URL, Str_secret>>, <<V_API_URL, Bool_true>>,
     <<V_AUTHOR, Str_x>>, <<V_TOKEN_Kelvin, Str_x>>,
     <<N_KV, Str_x>>, <<N_KV, Obj_foo>>}

WorkerName == <<"w","k">>

EmptyUnit == [name |-> WorkerName]

\* unit with x appended to the list at field f
AddTo(unit, f, x) == Overlay(unit, (f :> Append(GetList(unit, f), x)))

\* unit with x appended to the list at field f of the object at field g
AddIn(unit, g, f, x) == Overlay(unit, (g :> AddTo(GetObject(unit, g), f, x)))

\* the units that declare one more item than unit
OneMore(unit) ==
    {AddTo(unit, "kv_namespaces", d) : d \in KVDecls}
    \cup {AddTo(unit, "r2_buckets", d) : d \in R2Decls}
    \cup {AddTo(unit, "d1_databases", d) : d \in D1Decls}
    \cup {AddIn(unit, "queues", "producers", d) : d \in QueueDecls}
    \cup {AddIn(unit, "durable_objects", "bindings", d) : d \in DODecls}
    \cup {Overlay(unit, ("vars" :> Put(GetList(unit, "vars"), e[1], e[2]))) :
            e \in {x \in VarItems : x[1] \notin Keys(GetList(unit, "vars"))}}
    \cup {Overlay(unit, ("ai" :> [binding |-> N_KV]))}
    \cup {Overlay(unit, ("main" :> <<"a",".","t","s">>))}

\* the units that declare at most n items
RECURSIVE Units(_)
Units(n) ==
    IF n = 0 THEN {EmptyUnit}
    ELSE LET smaller == Units(n - 1)
         IN  smaller \cup UNION {OneMore(u) : u \in smaller}

E_production == <<"p","r","o","d","u","c","t","i","o","n">>
E_staging == <<"s","t","a","g","i","n","g">>

\* the env tables: none, or one override for production
EnvTables ==
    {<<>>}
    \cup {<<[k |-> E_production, v |-> o]>> :
            o \in {[x \in {} |-> x],
                   [name |-> <<"w","k","-","p">>,
                    kv_namespaces |-> <<[binding |-> N_CACHE, id |-> PlatformId]>>,
                    vars |-> <<[k |-> V_API_URL, v |-> [type |-> "string", v |-> "y"]]>>]}}

RawConfigs ==
    {IF e = <<>> THEN u ELSE Overlay(u, [env |-> e]) : u \in Units(MaxItems), e \in EnvTables}

\* the options of a call: the environment, and the naming options either
\* all left to their defaults or all given
OptionSets ==
    {Overlay(naming, target) :
        naming \in {[x \in {} |-> x],
                    [appName |-> <<"s","h","o","p">>, stage |-> <<"p","r","o","d">>,
                     adopt |-> FALSE, preserveNames |-> FALSE]},
        target \in {[x \in {} |-> x],
                    [targetEnvironment |-> E_production],
                    [targetEnvironment |-> E_staging]}}

(***************************************************************************)
(* The state machine: one ConfigTransformer and the calls made on it.      *)
(***************************************************************************)
\* a file system with the working directory and nothing in it
EmptyDisk == [dirs |-> {"."}, files |-> <<>>]

VARIABLES
    raw,        \* the schema-valid WranglerConfig the parser read
    config,     \* the NormalizedWranglerConfig the parser produced from it
    calls,      \* the transform calls made so far: options and what came of them
    validation, \* the ValidationResult of validateConfig, NoObject before it ran
    direct,     \* a direct call of transformBindings: its context and, once it
                \* returned, its bindings; NoObject when there is none
    disk,       \* the file system: the directories and the content of each file
    command     \* the CLI command that ran: its options, what it printed and
                \* wrote, its exit status; NoObject before a command ran

vars == <<raw, config, calls, validation, direct, disk, command>>

Init ==
    /\ raw \in RawConfigs
    /\ config = normalizeConfig(raw)
    /\ calls = <<>>
    /\ validation = NoObject
    /\ direct = NoObject
    /\ disk = EmptyDisk
    /\ command = NoObject

\* Call on a transformer that keeps the resources of its last call and puts
\* them in front of those of the next
Call_Accumulating(options) ==
    LET c == transform(config, options)
        last == calls[Len(calls)]
    IN  IF calls = <<>> \/ c.outcome = "threw" \/ last.outcome = "threw"
        THEN Overlay([options |-> options], c)
        ELSE [options |-> options, outcome |-> c.outcome, context |-> c.context,
              result |-> Overlay(c.result,
                                 [resources |-> last.result.resources \o c.result.resources])]

Call(options) == Overlay([options |-> options], transform(config, options))

\* the call migrateCommand makes
Transform ==
    /\ calls = <<>>
    /\ \E options \in OptionSets : calls' = <<Call(options)>>
    /\ UNCHANGED <<raw, config, validation, direct, disk, command>>

Next == Transform

Spec == Init /\ [][Next]_vars

\* the validate command on a configuration the parser accepted: it prints
\* that the configuration is valid and its summary, calls validateConfig
\* and prints the warnings of the result; nothing is thrown, so the catch
\* block with process.exit(1) is not entered
Validate ==
    /\ DOMAIN validation = {}
    /\ DOMAIN command = {}
    /\ validation' = validateConfig(config)
    /\ command' = [name |-> "validate",
                   printed |-> <<"Configuration is valid!">> \o validation'.warnings,
                   exit |-> 0]
    /\ UNCHANGED <<raw, config, calls, direct, disk>>

SpecValidate == Init /\ [][Validate]_vars

(***************************************************************************)
(* transformBindings called by itself, as the unit tests call it: the      *)
(* caller builds the context, so context.resources is any                  *)
(* Map<string, string> over the keys the unit's declarations look up.      *)
(***************************************************************************)
\* the strings a caller stores under a key; the empty string is one of them
StoredValues == {<<>>, <<"r","e","f">>}

\* the keys transformBindings looks up for the unit, each once
RECURSIVE LookupKeys(_)
LookupKeys(ds) ==
    IF ds = <<>> THEN <<>>
    ELSE LET rest == LookupKeys(Tail(ds))
             key == Head(ds).prefix \o <<":">> \o BindingTransformer_sanitizeId(Head(ds).name)
         IN  IF \E i \in 1..Len(rest) : rest[i] = key THEN rest ELSE <<key>> \o rest

\* every Map that holds some of the keys, each with one of the stored values
RECURSIVE ResourceMaps(_)
ResourceMaps(keys) ==
    IF keys = <<>> THEN {<<>>}
    ELSE LET rest == ResourceMaps(Tail(keys))
         IN  rest \cup {<<[k |-> Head(keys), v |-> value]>> \o m :
                           m \in rest, value \in StoredValues}

AllDeclarations(unit) ==
    LET of(list, prefix) ==
            [i \in 1..Len(list) |-> [prefix |-> prefix, name |-> list[i].binding]]
        do == GetList(GetObject(unit, "durable_objects"), "bindings")
    IN  of(GetList(unit, "kv_namespaces"), P_kv)
        \o of(GetList(unit, "r2_buckets"), P_r2)
        \o of(GetList(unit, "d1_databases"), P_d1)
        \o of(GetList(GetObject(unit, "queues"), "producers"), P_queue)
        \o [i \in 1..Len(do) |-> [prefix |-> P_durableobject, name |-> do[i].name]]
        \o of(GetList(unit, "hyperdrive"), P_hyperdrive)
        \o of(One(unit, "ai"), P_ai)
        \o of(GetList(unit, "analytics_engine_datasets"), P_analytics)
        \o of(One(unit, "browser"), P_browser)
        \o of(GetList(unit, "dispatch_namespaces"), P_dispatch)

InitBind ==
    /\ raw \in Units(MaxItems)
    /\ config = normalizeConfig(raw)
    /\ calls = <<>>
    /\ validation = NoObject
    /\ direct \in {[context |-> [resources |-> m, secrets |-> s]] :
                      m \in ResourceMaps(LookupKeys(AllDeclarations(raw))),
                      s \in {<<>>, <<<<"O","L","D">>>>}}
    /\ disk = EmptyDisk
    /\ command = NoObject

\* const bindings = BindingTransformer.transformBindings(config, context),
\* called on the configuration a transform call has been made on before
TransformBindings ==
    /\ DOMAIN direct = {"context"}
    /\ calls # <<>>
    /\ LET r == transformBindings(config, direct.context)
       IN  direct' = [context |-> [resources |-> direct.context.resources,
                                   secrets |-> r.secrets],
                      bindings |-> r.bindings,
                      before |-> direct.context]
    /\ UNCHANGED <<raw, config, calls, validation, disk, command>>

(***************************************************************************)
(* A run over several units of one configuration: the same                 *)
(* ConfigTransformer is called again, as full-migration.test.ts does for   *)
(* the environments of one configuration.                                  *)
(***************************************************************************)
\* transform calls of one run
MaxCalls == 3

RunConfigs ==
    {IF e = <<>> THEN u ELSE Overlay(u, [env |-> e]) :
        u \in OneMore(EmptyUnit) \cup {EmptyUnit}, e \in EnvTables}

InitRun ==
    /\ raw \in RunConfigs
    /\ config = normalizeConfig(raw)
    /\ calls = <<>>
    /\ validation = NoObject
    /\ direct = NoObject
    /\ disk = EmptyDisk
    /\ command = NoObject

\* the options of a call without the unit it selects
RunOptions(options) == [f \in DOMAIN options \ {"targetEnvironment"} |-> options[f]]

\* transform called on a unit of the configuration, under the options of
\* the run
TransformUnit ==
    /\ Len(calls) < MaxCalls
    /\ \E options \in OptionSets :
          /\ calls # <<>> => RunOptions(options) = RunOptions(calls[1].options)
          /\ calls' = Append(calls, Call(options))
    /\ UNCHANGED <<raw, config, validation, direct, disk, command>>

NextRun == TransformUnit

SpecRun == InitRun /\ [][NextRun]_vars

(***************************************************************************)
(* Configurations that declare plain variables only, with the names the    *)
(* secret heuristic is about, transformed with the default options.        *)
(***************************************************************************)
\* plain variables of a unit
MaxVars == 2

SecretTestNames ==
    {<<"A","P","I","_","K","E","Y">>,
     <<"a","p","i","K","e","y">>,
     <<"a","p","i","-","k","e","y">>,
     <<"A","P","I"," ","K","E","Y">>,
     <<"m","y","_","s","e","c","r","e","t">>,
     <<"U+017F","e","c","r","e","t">>,
     <<"P","A","S","S","W","O","R","D">>,
     <<"P","A","S","S","_","W","O","R","D">>,
     <<"a","u","t","h","_","t","o","k","e","n">>,
     <<"T","O","U+212A","E","N">>,
     <<"p","r","i","v","a","t","e","K","e","y">>,
     <<"P","R","I","V","A","T","E","_","K","E","Y","S">>,
     <<"A","U","T","H","O","R">>,
     <<"d","b","_","c","r","e","d","e","n","t","i","a","l">>,
     <<"A","P","I","_","U","R","L">>,
     <<"R","E","G","I","O","N">>}

SecretTestItems ==
    {<<n, v>> : n \in SecretTestNames, v \in {Str_x}}
    \cup {<<V_API_URL, Str_secret>>, <<V_API_KEY, Num_5>>,
          <<V_API_URL, Bool_true>>, <<V_AUTHOR, Obj_foo>>}

RECURSIVE VarTables(_)
VarTables(n) ==
    IF n = 0 THEN {<<>>}
    ELSE LET smaller == VarTables(n - 1)
         IN  smaller \cup {Put(t, e[1], e[2]) :
                              t \in smaller, e \in SecretTestItems}

InitVars ==
    /\ raw \in {Overlay(EmptyUnit, [vars |-> t]) : t \in VarTables(MaxVars)}
    /\ config = normalizeConfig(raw)
    /\ calls = <<>>
    /\ validation = NoObject
    /\ direct = NoObject
    /\ disk = EmptyDisk
    /\ command = NoObject

TransformDefault ==
    /\ calls = <<>>
    /\ calls' = <<Call([x \in {} |-> x])>>
    /\ UNCHANGED <<raw, config, validation, direct, disk, command>>

NextVars == TransformDefault

SpecVars == InitVars /\ [][NextVars]_vars

\* transform called on the parsed configuration, and then transformBindings
\* called by itself on the same configuration
NextBind == TransformBindings \/ TransformDefault

SpecBind == InitBind /\ [][NextBind]_vars

(***************************************************************************)
(* Configurations with one environment, production, whose override         *)
(* declares, leaves out or empties each kind of field.                     *)
(***************************************************************************)
V_A == <<"A">>
V_B == <<"B">>
V_C == <<"C">>

Text(t) == [type |-> "string", v |-> t]

R_1 == <<"a",".","c","o","m","/","*">>
R_2 == <<"b",".","c","o","m","/","*">>

Q_tasks == <<"t","a","s","k","s">>
Q_mail == <<"m","a","i","l">>

\* the field f left out, or given one of the values
OptField(f, values) == {[x \in {} |-> x]} \cup {(f :> v) : v \in values}

\* the fields of the base unit
EnvBases ==
    {Overlay(Overlay(Overlay(Overlay(EmptyUnit, a), b), c), d) :
        a \in OptField("vars", {<<[k |-> V_A, v |-> Text("1")], [k |-> V_B, v |-> Text("2")]>>}),
        b \in OptField("kv_namespaces", {<<[binding |-> N_KV, id |-> PlatformId]>>}),
        c \in OptField("routes", {<<R_1>>}),
        d \in OptField("queues", {[producers |-> <<[binding |-> N_QUEUE, queue |-> Q_tasks]>>]})}

\* the fields of the override
EnvOverrides ==
    {Overlay(Overlay(Overlay(a, b), c), d) :
        a \in OptField("vars", {<<>>, <<[k |-> V_B, v |-> Text("3")], [k |-> V_C, v |-> Text("4")]>>}),
        b \in OptField("kv_namespaces", {<<>>, <<[binding |-> N_CACHE, id |-> PlatformId]>>}),
        c \in OptField("routes", {<<>>, <<R_2>>}),
        d \in OptField("queues", {[consumers |-> <<[queue |-> Q_tasks]>>],
                                  [producers |-> <<[binding |-> N_QUEUE, queue |-> Q_mail]>>]})}

RawEnvConfigs ==
    {Overlay(b, [env |-> <<[k |-> E_production, v |-> o]>>]) :
        b \in EnvBases, o \in EnvOverrides}

InitEnv ==
    /\ raw \in RawEnvConfigs
    /\ config = normalizeConfig(raw)
    /\ calls = <<>>
    /\ validation = NoObject
    /\ direct = NoObject
    /\ disk = EmptyDisk
    /\ command = NoObject

NextEnv == Transform

SpecEnv == InitEnv /\ [][NextEnv]_vars

(***************************************************************************)
(* Units with the declarations of one category, or of all five, under      *)
(* every combination of the naming and adoption options.                   *)
(***************************************************************************)
N_UPLOADS == <<"U","P","L","O","A","D","S">>

\* a unit like tests/fixtures/complex-worker.toml, with every category
ComplexUnit ==
    [name |-> WorkerName,
     kv_namespaces |-> <<[binding |-> N_CACHE, id |-> PlatformId]>>,
     r2_buckets |-> <<[binding |-> N_UPLOADS, bucket_name |-> <<"u","p">>]>>,
     d1_databases |-> <<[binding |-> N_DB, database_name |-> <<"m","a","i","n">>,
                         database_id |-> PlatformId]>>,
     queues |-> [producers |-> <<[binding |-> N_QUEUE, queue |-> Q_tasks]>>],
     durable_objects |-> [bindings |-> <<[name |-> N_BINDING,
                                          class_name |-> <<"R","o","o","m">>]>>]]

NamingUnits ==
    {AddTo(EmptyUnit, "kv_namespaces", d) :
        d \in KVDecls \cup {[binding |-> N_CACHE, id |-> PlatformId],
                            [binding |-> <<>>, id |-> PlatformId],
                            [binding |-> <<>>]}}
    \cup {AddTo(EmptyUnit, "r2_buckets", d) : d \in R2Decls}
    \cup {AddTo(EmptyUnit, "d1_databases", d) :
            d \in D1Decls \cup {[binding |-> N_DB, database_name |-> <<"m","a","i","n">>,
                                 database_id |-> PlatformId]}}
    \cup {AddIn(EmptyUnit, "queues", "producers", d) : d \in QueueDecls}
    \cup {AddIn(EmptyUnit, "durable_objects", "bindings", d) : d \in DODecls}
    \cup {ComplexUnit,
          \* a KV namespace and an R2 bucket with the same binding name
          AddTo(AddTo(EmptyUnit, "kv_namespaces", [binding |-> N_KV, id |-> PlatformId]),
                "r2_buckets", [binding |-> N_KV, bucket_name |-> <<"u","p">>]),
          \* every category, two KV namespaces and two queue producers
          AddIn(AddTo(ComplexUnit, "kv_namespaces", [binding |-> N_KV, id |-> PlatformId]),
                "queues", "producers", [binding |-> N_Kelvin, queue |-> Q_tasks])}
    \* a consumer of the queue "tasks", with no producer, with the producer
    \* bound as QUEUE and with the producer bound as "tasks"
    \cup {Overlay(EmptyUnit, [queues |-> Overlay(p, [consumers |-> <<[queue |-> Q_tasks]>>])]) :
            p \in OptField("producers", {<<[binding |-> N_QUEUE, queue |-> Q_tasks]>>,
                                         <<[binding |-> Q_tasks, queue |-> Q_tasks]>>})}
    \cup {AddTo(EmptyUnit, "hyperdrive", [binding |-> N_DB, id |-> PlatformId]),
          Overlay(EmptyUnit, [ai |-> [binding |-> <<"A","I">>]]),
          AddTo(EmptyUnit, "analytics_engine_datasets", [binding |-> <<"S","T","A","T","S">>]),
          Overlay(EmptyUnit, [browser |-> [binding |-> <<"B","R","O","W","S","E","R">>]]),
          AddTo(EmptyUnit, "dispatch_namespaces",
                [binding |-> <<"D","I","S","P","A","T","C","H">>,
                 namespace |-> <<"p","r","o","d">>])}

NamingOptionSets ==
    {Overlay(Overlay(Overlay(a, b), c), d) :
        a \in OptField("adopt", {TRUE, FALSE}),
        b \in OptField("preserveNames", {TRUE, FALSE}),
        c \in OptField("stage", {<<"p","r","o","d">>, <<>>}),
        d \in OptField("appName", {<<"s","h","o","p">>})}

InitNaming ==
    /\ raw \in NamingUnits
    /\ config = normalizeConfig(raw)
    /\ calls = <<>>
    /\ validation = NoObject
    /\ direct = NoObject
    /\ disk = EmptyDisk
    /\ command = NoObject

TransformNamed ==
    /\ calls = <<>>
    /\ \E options \in NamingOptionSets : calls' = <<Call(options)>>
    /\ UNCHANGED <<raw, config, validation, direct, disk, command>>

NextNaming == TransformNamed

SpecNaming == InitNaming /\ [][NextNaming]_vars

(***************************************************************************)
(* migrateCommand (src/cli/commands/migrate.ts) on a file system.  A path  *)
(* is [dir, name]; the content of a file says who wrote it.                *)
(***************************************************************************)
\* existsSync(file.path)
existsSync(d, path) == path \in DOMAIN d.files

\* the files list of step 6, in its order, for the output directory
generatedFiles(outputDir) ==
    <<[path |-> [dir |-> outputDir, name |-> "alchemy.run.ts"],
       content |-> [by |-> "generateAlchemyConfig"], overwrite |-> TRUE],
      [path |-> [dir |-> outputDir, name |-> "worker-env.d.ts"],
       content |-> [by |-> "generateWorkerTypes"], overwrite |-> TRUE],
      [path |-> [dir |-> outputDir, name |-> ".env.example"],
       content |-> [by |-> "generateEnvTemplate"], overwrite |-> FALSE],
      [path |-> [dir |-> outputDir, name |-> "MIGRATION.md"],
       content |-> [by |-> "generateMigrationReadme"], overwrite |-> TRUE]>>

\* mkdirSync(dir, {recursive: true}) when needed, then writeFileSync
writeFile(d, file) ==
    [dirs |-> d.dirs \cup {file.path.dir},
     files |-> [p \in DOMAIN d.files \cup {file.path} |->
                   IF p = file.path THEN file.content ELSE d.files[p]]]

\* writeFiles that writes every file of the list
RECURSIVE writeFiles_Overwriting(_, _)
writeFiles_Overwriting(files, st) ==
    IF files = <<>> THEN st
    ELSE writeFiles_Overwriting(Tail(files),
             [disk |-> writeFile(st.disk, Head(files)),
              log |-> Append(st.log, [op |-> "written", name |-> Head(files).path.name])])

\* the write loop of step 7: st is [disk, log], the log naming what was
\* done to each file in turn
RECURSIVE writeFiles(_, _)
writeFiles(files, st) ==
    IF files = <<>> THEN st
    ELSE LET file == Head(files)
             skip == ~file.overwrite /\ existsSync(st.disk, file.path)
         IN  writeFiles(Tail(files),
                 IF skip
                 THEN [disk |-> st.disk,
                       log |-> Append(st.log, [op |-> "skipped", name |-> file.path.name])]
                 ELSE [disk |-> writeFile(st.disk, file),
                       log |-> Append(st.log, [op |-> "written", name |-> file.path.name])])

\* step 7 under dryRun false
writeStep(files, d) == writeFiles(files, [disk |-> d, log |-> <<>>])

\* the options commander hands to migrateCommand
CliOptions ==
    {Overlay(Overlay(Overlay([output |-> o, interactive |-> i, dryRun |-> dry], naming), st), e) :
        o \in {".", "out"}, i \in BOOLEAN, dry \in BOOLEAN,
        naming \in {[adopt |-> TRUE, preserveNames |-> TRUE],
                    [adopt |-> FALSE, preserveNames |-> FALSE]},
        st \in OptField("stage", {<<"p","r","o","d">>}),
        e \in OptField("env", {E_production, E_staging})}

\* what the user answers to the four prompts of promptForMigrationOptions
PromptAnswers ==
    {[stage |-> <<>>, adopt |-> TRUE, preserveNames |-> TRUE, outputDir |-> "."],
     [stage |-> <<"p","r","o","d">>, adopt |-> FALSE, preserveNames |-> FALSE,
      outputDir |-> "out"]}

\* migrationOptions of step 3
migrationOptionsOf(options, answers) ==
    LET initial == Overlay([outputDir |-> options.output, adopt |-> options.adopt,
                            preserveNames |-> options.preserveNames,
                            interactive |-> options.interactive,
                            dryRun |-> options.dryRun],
                           IF "stage" \in DOMAIN options
                           THEN [stage |-> options.stage] ELSE [x \in {} |-> x])
    IN  IF options.interactive THEN Overlay(initial, answers) ELSE initial

\* the options of the transform call of step 5
transformOptionsOf(options, mo) ==
    Overlay(Overlay([appName |-> config.name, adopt |-> mo.adopt,
                     preserveNames |-> mo.preserveNames],
                    IF "stage" \in DOMAIN mo THEN [stage |-> mo.stage] ELSE [x \in {} |-> x]),
            IF "env" \in DOMAIN options
            THEN [targetEnvironment |-> options.env] ELSE [x \in {} |-> x])

\* finishMigrate that writes the files under --dry-run too
finishMigrate_IgnoringDryRun(options, mo, c) ==
    IF c.outcome = "threw"
    THEN [name |-> "migrate", options |-> options, exit |-> 1, log |-> <<>>, disk |-> disk]
    ELSE LET w == writeStep(generatedFiles(mo.outputDir), disk)
         IN  [name |-> "migrate", options |-> options, exit |-> 0, log |-> w.log,
              disk |-> w.disk]

\* steps 6 to 8 and the catch block: what the command leaves behind
finishMigrate(options, mo, c) ==
    IF c.outcome = "threw"
    THEN [name |-> "migrate", options |-> options, exit |-> 1, log |-> <<>>, disk |-> disk]
    ELSE IF mo.dryRun
    THEN [name |-> "migrate", options |-> options, exit |-> 0, log |-> <<>>, disk |-> disk]
    ELSE LET w == writeStep(generatedFiles(mo.outputDir), disk)
         IN  [name |-> "migrate", options |-> options, exit |-> 0, log |-> w.log,
              disk |-> w.disk]

Migrate ==
    /\ DOMAIN command = {}
    /\ calls = <<>>
    /\ \E options \in CliOptions, answers \in PromptAnswers :
          LET mo == migrationOptionsOf(options, answers)
              c == Call(transformOptionsOf(options, mo))
              end == finishMigrate(options, mo, c)
          IN  /\ calls' = <<c>>
              /\ disk' = end.disk
              /\ command' = [name |-> end.name, options |-> end.options,
                             outputDir |-> mo.outputDir, dryRun |-> mo.dryRun,
                             exit |-> end.exit, log |-> end.log, before |-> disk]
    /\ UNCHANGED <<raw, config, validation, direct>>

\* the file systems a run starts on: the output directory "out" there or
\* not, and in one directory some files of an earlier run or of the user
InitialDisks ==
    {[dirs |-> dirs,
      files |-> [p \in {[dir |-> d, name |-> n] : n \in present} |-> [by |-> "user"]]] :
        dirs \in {{"."}, {".", "out"}}, d \in {".", "out"},
        present \in SUBSET {".env.example", "alchemy.run.ts"}}

MigrateConfigs ==
    {EmptyUnit, ComplexUnit,
     Overlay(ComplexUnit, [env |-> <<[k |-> E_production,
                                      v |-> [vars |-> <<[k |-> V_API_URL, v |-> Text("y")]>>]]>>])}

InitMigrate ==
    /\ raw \in MigrateConfigs
    /\ config = normalizeConfig(raw)
    /\ calls = <<>>
    /\ validation = NoObject
    /\ direct = NoObject
    /\ disk \in {d \in InitialDisks : \A p \in DOMAIN d.files : p.dir \in d.dirs}
    /\ command = NoObject

SpecMigrate == InitMigrate /\ [][Migrate]_vars

(***************************************************************************)
(* What the properties below speak about.                                  *)
(***************************************************************************)
Returned(c) == c.outcome = "returned"

\* the unit a call transformed
UnitOf(c) == targetConfigOf(config, c.options)

\* the resource declarations of a unit in the order transform maps them,
\* each with the key prefix transformBindings uses for its category
Declarations(unit) ==
    LET of(list, prefix, nameField) ==
            [i \in 1..Len(list) |-> [prefix |-> prefix, name |-> list[i][nameField]]]
    IN  of(GetList(unit, "kv_namespaces"), P_kv, "binding")
        \o of(GetList(unit, "r2_buckets"), P_r2, "binding")
        \o of(GetList(unit, "d1_databases"), P_d1, "binding")
        \o of(GetList(GetObject(unit, "queues"), "producers"), P_queue, "binding")
        \o of(GetList(GetObject(unit, "durable_objects"), "bindings"), P_durableobject, "name")

\* the key transformBindings looks up for a declaration
LookupKey(d) == d.prefix \o <<":">> \o BindingTransformer_sanitizeId(d.name)

BindingsOf(c) == c.result.workers[1].bindings

Elements(seq) == {seq[i] : i \in 1..Len(seq)}

\* A-Z mapped to a-z, every other character kept
RECURSIVE AsciiLower(_)
AsciiLower(s) ==
    IF s = <<>> THEN <<>>
    ELSE <<IF IsUpper(Head(s)) THEN LowerLetters[LetterIndex(UpperLetters, Head(s))]
           ELSE Head(s)>> \o AsciiLower(Tail(s))

Contains(hay, needle) ==
    \E i \in 1..(Len(hay) - Len(needle) + 1) : SubSeq(hay, i, i + Len(needle) - 1) = needle

\* the words of api[_-]?key, secret, password, token, private[_-]?key, auth, credential
SecretWords ==
    {<<"a","p","i","k","e","y">>,
     <<"a","p","i","_","k","e","y">>,
     <<"a","p","i","-","k","e","y">>,
     <<"s","e","c","r","e","t">>,
     <<"p","a","s","s","w","o","r","d">>,
     <<"t","o","k","e","n">>,
     <<"p","r","i","v","a","t","e","k","e","y">>,
     <<"p","r","i","v","a","t","e","_","k","e","y">>,
     <<"p","r","i","v","a","t","e","-","k","e","y">>,
     <<"a","u","t","h">>,
     <<"c","r","e","d","e","n","t","i","a","l">>}

NameLooksSecret(name) == \E w \in SecretWords : Contains(AsciiLower(name), w)

\* the binding names of a unit (resource declarations and plain variables)
\* are pairwise different
DistinctNames(unit) ==
    LET names == [j \in 1..Len(Declarations(unit)) |-> Declarations(unit)[j].name]
                 \o [j \in 1..Len(GetList(unit, "vars")) |-> unit.vars[j].k]
    IN  \A i, j \in 1..Len(names) : i # j => names[i] # names[j]

(***************************************************************************)
(* Properties.  C1 to C5 are stated for the units whose binding names are  *)
(* pairwise different, the units validateConfig has no complaint about.    *)
(***************************************************************************)
\* C1: for every declaration of the transformed unit, the key that
\* transformBindings looks up is the key under which transform registered
\* the resource built from that declaration, and worker.bindings holds a
\* resource binding under the declared name.
C1_LookupKeyIsRegisteredKey ==
    \A n \in 1..Len(calls) :
        (Returned(calls[n]) /\ DistinctNames(UnitOf(calls[n]))) =>
            LET decls == Declarations(UnitOf(calls[n]))
            IN  \A j \in 1..Len(decls) :
                    /\ LookupKey(decls[j]) = resourceKey(calls[n].result.resources[j])
                    /\ Has(BindingsOf(calls[n]), decls[j].name)
                    /\ Lookup(BindingsOf(calls[n]), decls[j].name).type = "resource"

\* the last declaration named name whose lookup finds an entry: the one
\* that wrote the resource binding under that name (0 when there is none)
LastWriter(c, name) ==
    LET decls == Declarations(UnitOf(c))
        hits == {j \in 1..Len(decls) :
                    /\ decls[j].name = name
                    /\ Has(c.context.resources, LookupKey(decls[j]))}
    IN  IF hits = {} THEN 0 ELSE CHOOSE j \in hits : \A o \in hits : o <= j

\* C2: every resource binding of worker.bindings refers to the variableName
\* of the resource built from the declaration the binding was written for.
C2_BindingRefersToOwnResource ==
    \A n \in 1..Len(calls) :
        (Returned(calls[n]) /\ DistinctNames(UnitOf(calls[n]))) =>
            \A e \in Elements(BindingsOf(calls[n])) :
                e.v.type = "resource" =>
                    LET j == LastWriter(calls[n], e.k)
                    IN  /\ j # 0
                        /\ e.v.resourceRef = calls[n].result.resources[j].variableName

\* C3: no two resources of one result have the same variableName.
C3_VariableNamesUnique ==
    \A n \in 1..Len(calls) :
        (Returned(calls[n]) /\ DistinctNames(UnitOf(calls[n]))) =>
            LET rs == calls[n].result.resources
            IN  \A i, j \in 1..Len(rs) :
                    i # j => rs[i].variableName # rs[j].variableName

\* C4: no two entries of result.resources have the same type and the same id.
C4_OneEntryPerKey ==
    \A n \in 1..Len(calls) :
        (Returned(calls[n]) /\ DistinctNames(UnitOf(calls[n]))) =>
            LET rs == calls[n].result.resources
            IN  \A i, j \in 1..Len(rs) :
                    i # j => ~(rs[i].type = rs[j].type /\ rs[i].id = rs[j].id)

\* C5: first-writer-wins: the entry the lookup map stores for a key is the
\* one of the first declaration that maps to the key.
C5_FirstWriterWins ==
    \A n \in 1..Len(calls) :
        (Returned(calls[n]) /\ DistinctNames(UnitOf(calls[n]))) =>
            LET rs == calls[n].result.resources
            IN  \A i \in 1..Len(rs) :
                    LET first == CHOOSE j \in 1..Len(rs) :
                                    /\ resourceKey(rs[j]) = resourceKey(rs[i])
                                    /\ \A o \in 1..Len(rs) :
                                          resourceKey(rs[o]) = resourceKey(rs[i]) => j <= o
                    IN  Lookup(calls[n].context.resources, resourceKey(rs[i]))
                            = rs[first].variableName

DeclaresCache(unit) ==
    \E i \in 1..Len(GetList(unit, "kv_namespaces")) :
        unit.kv_namespaces[i].binding = N_CACHE

K_kv_cache == <<"k","v",":","c","a","c","h","e">>

CacheEntries(c) ==
    {r \in Elements(c.result.resources) : resourceKey(r) = K_kv_cache}

\* C6: after two units that each declare the KV namespace CACHE were
\* processed in order, the run holds one resource entry for kv:cache, the
\* one built from the first unit's declaration, and the CACHE binding of
\* both units refers to it.
C6_CacheSharedAcrossUnits ==
    \A m, n \in 1..Len(calls) :
        (/\ m < n
         /\ Get(calls[m].options, "targetEnvironment") # Get(calls[n].options, "targetEnvironment")
         /\ Returned(calls[m]) /\ Returned(calls[n])
         /\ DeclaresCache(UnitOf(calls[m])) /\ DeclaresCache(UnitOf(calls[n])))
        => \E first \in CacheEntries(calls[m]) :
              /\ CacheEntries(calls[m]) \cup CacheEntries(calls[n]) = {first}
              /\ \A c \in {calls[m], calls[n]} :
                    Lookup(BindingsOf(c), N_CACHE) =
                        [type |-> "resource", resourceRef |-> first.variableName]

\* C7: transform never throws, whatever the options.
C7_TransformNeverThrows ==
    \A n \in 1..Len(calls) : Returned(calls[n])

\* vars with the value at position i (at every position when i = 0)
\* replaced by w
Revalued(vs, i, w) ==
    [j \in 1..Len(vs) |-> IF i = 0 \/ i = j THEN [k |-> vs[j].k, v |-> w] ELSE vs[j]]

\* C8: a variable is classified secret exactly when its name contains,
\* compared without regard to the case of A-Z, one of the words of the
\* seven patterns; and the secrets of the unit stay the same when the
\* values of its variables are replaced by any others.
C8_SecretByNameOnly ==
    \A n \in 1..Len(calls) :
        Returned(calls[n]) =>
            LET unit == UnitOf(calls[n])
                vs == GetList(unit, "vars")
                secrets == calls[n].result.secrets
            IN  /\ \A e \in Elements(vs) : (e.k \in Elements(secrets)) <=> NameLooksSecret(e.k)
                /\ Elements(secrets) \subseteq Keys(vs)
                /\ \A i \in 0..Len(vs), w \in VarValues :
                      transformBindings(
                          Overlay(unit, [vars |-> Revalued(vs, i, w)]),
                          [resources |-> calls[n].context.resources, secrets |-> <<>>]).secrets
                      = secrets

\* C8 witness: API_KEY with a harmless value is secret while API_URL, whose
\* value looks like a secret, is not
C8_Witness ==
    /\ calls # <<>>
    /\ Returned(calls[1])
    /\ Lookup(GetList(config, "vars"), V_API_KEY) = Str_x
    /\ Lookup(GetList(config, "vars"), V_API_URL) = Str_secret
    /\ calls[1].result.secrets = <<V_API_KEY>>

\* C9: every plain variable of the unit has exactly one binding: secret
\* (and the name in secrets) when the name looks secret, else plainText
\* with the value when the value is a string, else json with the value.
C9_OneBindingPerVariable ==
    \A n \in 1..Len(calls) :
        Returned(calls[n]) =>
            LET b == BindingsOf(calls[n])
            IN  \A e \in Elements(GetList(UnitOf(calls[n]), "vars")) :
                    /\ Cardinality({i \in 1..Len(b) : b[i].k = e.k}) = 1
                    /\ Lookup(b, e.k) =
                          IF NameLooksSecret(e.k) THEN [type |-> "secret", secretName |-> e.k]
                          ELSE IF e.v.type = "string" THEN [type |-> "plainText", value |-> e.v]
                          ELSE [type |-> "json", value |-> e.v]
                    /\ NameLooksSecret(e.k) => e.k \in Elements(calls[n].result.secrets)

\* C9 witness: a unit with a secret variable and a structured one that has
\* the name of nothing else
C9_Witness ==
    /\ calls # <<>>
    /\ Returned(calls[1])
    /\ Lookup(BindingsOf(calls[1]), V_API_KEY) = [type |-> "secret", secretName |-> V_API_KEY]
    /\ Lookup(BindingsOf(calls[1]), N_KV) = [type |-> "json", value |-> Obj_foo]

\* C10: a name is in result.secrets exactly when worker.bindings has a
\* secret binding under it, a key of result.plainTextVars exactly when
\* worker.bindings has a plainText binding under it with the same value,
\* and never both.
C10_SummaryMatchesBindings ==
    \A n \in 1..Len(calls) :
        Returned(calls[n]) =>
            LET b == BindingsOf(calls[n])
                secrets == Elements(calls[n].result.secrets)
                plain == calls[n].result.plainTextVars
            IN  \A x \in Keys(b) \cup secrets \cup Keys(plain) :
                    /\ x \in secrets <=> (Has(b, x) /\ Lookup(b, x).type = "secret")
                    /\ Has(plain, x) <=> (Has(b, x) /\ Lookup(b, x).type = "plainText")
                    /\ Has(plain, x) => Lookup(b, x).value = Lookup(plain, x)
                    /\ ~(x \in secrets /\ Has(plain, x))

\* C10 witness: a result with a secret variable and a plain-text variable
C10_Witness ==
    /\ calls # <<>>
    /\ Returned(calls[1])
    /\ calls[1].result.secrets # <<>>
    /\ calls[1].result.plainTextVars # <<>>

\* the base unit of the parsed configuration
BaseOf(r) == [f \in DOMAIN r \ {"env"} |-> r[f]]

\* the resolved unit of the environment at position i of raw.env
ResolvedEnv(i) == Lookup(config.environments, raw.env[i].k)

\* C11: the vars of a resolved environment have the keys of the base and
\* of the override, with the override's value for a key the override
\* declares and the base's value for every other key.
C11_VarsShallowMerged ==
    \A i \in 1..Len(GetList(raw, "env")) :
        LET baseVars == GetList(BaseOf(raw), "vars")
            overVars == GetList(raw.env[i].v, "vars")
            merged == GetList(ResolvedEnv(i), "vars")
        IN  /\ Keys(merged) = Keys(baseVars) \cup Keys(overVars)
            /\ Cardinality(Keys(merged)) = Len(merged)
            /\ \A key \in Keys(merged) :
                  Lookup(merged, key) = IF Has(overVars, key) THEN Lookup(overVars, key)
                                        ELSE Lookup(baseVars, key)

\* C11 witness: base {A:1, B:2} and override {B:3, C:4} resolved to
\* {A:1, B:3, C:4}
C11_Witness ==
    /\ "env" \in DOMAIN raw
    /\ GetList(raw, "vars") = <<[k |-> V_A, v |-> Text("1")], [k |-> V_B, v |-> Text("2")]>>
    /\ GetList(raw.env[1].v, "vars") = <<[k |-> V_B, v |-> Text("3")], [k |-> V_C, v |-> Text("4")]>>
    /\ ResolvedEnv(1).vars = <<[k |-> V_A, v |-> Text("1")], [k |-> V_B, v |-> Text("3")],
                               [k |-> V_C, v |-> Text("4")]>>

\* the list-typed fields of the units above, each by its path in the unit
ListFields == {<<"kv_namespaces">>, <<"routes">>, <<"queues", "producers">>,
               <<"queues", "consumers">>}

\* the unit declares the field at the path
Declared(unit, path) ==
    /\ path[1] \in DOMAIN unit
    /\ Len(path) = 2 => path[2] \in DOMAIN unit[path[1]]

ListAt(unit, path) == IF Len(path) = 1 THEN unit[path[1]] ELSE unit[path[1]][path[2]]

\* C12: for every list-typed field, the resolved environment holds exactly
\* the override's list when the override declares the field (also an empty
\* one) and exactly the base's list when it does not.
C12_ListsReplacedOrInherited ==
    \A i \in 1..Len(GetList(raw, "env")), path \in ListFields :
        LET base == BaseOf(raw)
            override == raw.env[i].v
            resolved == ResolvedEnv(i)
        IN  IF Declared(override, path)
            THEN Declared(resolved, path) /\ ListAt(resolved, path) = ListAt(override, path)
            ELSE /\ Declared(resolved, path) = Declared(base, path)
                 /\ Declared(base, path) => ListAt(resolved, path) = ListAt(base, path)

\* the call selected an environment whose override declares no field
SelectsEmptyOverride(c) ==
    /\ "targetEnvironment" \in DOMAIN c.options
    /\ \E i \in 1..Len(GetList(raw, "env")) :
          /\ raw.env[i].k = c.options.targetEnvironment
          /\ DOMAIN raw.env[i].v = {}

\* C13: transforming an environment whose override declares no field gives
\* the resources, bindings and worker props (name, entrypoint,
\* compatibilityDate) that transforming with no targetEnvironment gives.
C13_EmptyOverrideInherits ==
    \A n \in 1..Len(calls) :
        SelectsEmptyOverride(calls[n]) =>
            LET base == transform(config, RunOptions(calls[n].options))
                props == calls[n].result.workers[1].props
                baseProps == base.result.workers[1].props
            IN  /\ Returned(calls[n]) /\ Returned(base)
                /\ calls[n].result.resources = base.result.resources
                /\ BindingsOf(calls[n]) = BindingsOf(base)
                /\ props.name = baseProps.name
                /\ props.entrypoint = baseProps.entrypoint
                /\ props.compatibilityDate = baseProps.compatibilityDate

\* the resources of a call that have one of the types
OfTypes(c, types) ==
    {c.result.resources[i] : i \in {j \in 1..Len(c.result.resources) :
                                       c.result.resources[j].type \in types}}

\* C14: a Durable Object declaration yields a resource with adopt = false,
\* whether the adopt option is true, false or absent.
C14_DurableObjectsNeverAdopted ==
    \A n \in 1..Len(calls) :
        Returned(calls[n]) =>
            /\ \A r \in OfTypes(calls[n], {T_DO}) : r.adopt = FALSE
            /\ Cardinality({j \in 1..Len(calls[n].result.resources) :
                               calls[n].result.resources[j].type = T_DO})
               = Len(GetList(GetObject(UnitOf(calls[n]), "durable_objects"), "bindings"))

\* C14 witness: a call with adopt: true on a unit with a Durable Object
C14_Witness ==
    /\ calls # <<>>
    /\ Returned(calls[1])
    /\ "adopt" \in DOMAIN calls[1].options
    /\ calls[1].options.adopt
    /\ OfTypes(calls[1], {T_DO}) # {}

\* C15: every KV, R2, D1 and Queue resource has adopt equal to the adopt
\* option (true when the option is not given) and props.adopt equal to it.
C15_AdoptFollowsOption ==
    \A n \in 1..Len(calls) :
        Returned(calls[n]) =>
            \A r \in OfTypes(calls[n], {T_KV, T_R2, T_D1, T_Queue}) :
                /\ r.adopt = IF "adopt" \in DOMAIN calls[n].options
                             THEN calls[n].options.adopt ELSE TRUE
                /\ r.props.adopt = r.adopt

\* C15 witness: the unit with every category transformed without an adopt
\* option
C15_Witness ==
    /\ calls # <<>>
    /\ Returned(calls[1])
    /\ "adopt" \notin DOMAIN calls[1].options
    /\ raw = ComplexUnit
    /\ Cardinality(OfTypes(calls[1], {T_KV, T_R2, T_D1, T_Queue})) = 4

\* the KV, R2, D1 and queue declarations of a unit in mapping order: the
\* word of the category, the binding name, the name the declaration itself
\* gives the resource, and whether it carries a platform identifier
NamedDeclarations(unit) ==
    [i \in 1..Len(GetList(unit, "kv_namespaces")) |->
        LET d == unit.kv_namespaces[i]
        IN  [word |-> <<"k","v">>, binding |-> d.binding, own |-> d.binding,
             identified |-> Truthy(Get(d, "id")), kv |-> TRUE]]
    \o [i \in 1..Len(GetList(unit, "r2_buckets")) |->
        LET d == unit.r2_buckets[i]
        IN  [word |-> <<"b","u","c","k","e","t">>, binding |-> d.binding,
             own |-> d.bucket_name, identified |-> TRUE, kv |-> FALSE]]
    \o [i \in 1..Len(GetList(unit, "d1_databases")) |->
        LET d == unit.d1_databases[i]
        IN  [word |-> <<"d","b">>, binding |-> d.binding, own |-> d.database_name,
             identified |-> Truthy(Get(d, "database_id")), kv |-> FALSE]]
    \o [i \in 1..Len(GetList(GetObject(unit, "queues"), "producers")) |->
        LET d == unit.queues.producers[i]
        IN  [word |-> <<"q","u","e","u","e">>, binding |-> d.binding, own |-> d.queue,
             identified |-> TRUE, kv |-> FALSE]]

DisplayName(r) == IF r.type = T_KV THEN r.props.title ELSE r.props.name

\* preserveNames as the call has it
Preserving(c) ==
    IF "preserveNames" \in DOMAIN c.options THEN c.options.preserveNames ELSE TRUE

\* <appName>-<part>[-<stage>] under the options of the call
Synthesized(c, part) ==
    (IF "appName" \in DOMAIN c.options THEN c.options.appName ELSE config.name)
    \o <<"-">> \o part
    \o (IF Truthy(Get(c.options, "stage")) THEN <<"-">> \o c.options.stage ELSE <<>>)

\* C20, as stated: the display name of a KV, R2, D1 or Queue resource is
\* the binding name when preserveNames is true and the declaration carries
\* a platform identifier, and <appName>-<id>[-<stage>] in every other case.
C20_DisplayNameAsStated ==
    \A n \in 1..Len(calls) :
        Returned(calls[n]) =>
            LET ds == NamedDeclarations(UnitOf(calls[n])) IN
            \A i \in 1..Len(ds) :
                LET r == calls[n].result.resources[i] IN
                DisplayName(r) = IF Preserving(calls[n]) /\ ds[i].identified
                                 THEN ds[i].binding
                                 ELSE Synthesized(calls[n], r.id)

\* C20, amended: with preserveNames true, a KV namespace that carries an id
\* is displayed under its binding name and an R2 bucket, D1 database or
\* queue under its own bucket_name, database_name or queue name (with or
\* without an identifier); in every other case the display name is
\* <appName>-<id>[-<stage>], with the word of the category in place of an
\* empty id.
C20_DisplayNamePolicy ==
    \A n \in 1..Len(calls) :
        Returned(calls[n]) =>
            LET ds == NamedDeclarations(UnitOf(calls[n])) IN
            \A i \in 1..Len(ds) :
                LET r == calls[n].result.resources[i] IN
                DisplayName(r) = IF Preserving(calls[n]) /\ (ds[i].kv => ds[i].identified)
                                 THEN ds[i].own
                                 ELSE Synthesized(calls[n],
                                                  IF r.id = <<>> THEN ds[i].word ELSE r.id)

\* C20 witness: with preserveNames left at true, the unit with every
\* category has its KV namespace displayed as CACHE and its bucket as "up"
C20_Witness ==
    /\ calls # <<>>
    /\ Returned(calls[1])
    /\ raw = ComplexUnit
    /\ "preserveNames" \notin DOMAIN calls[1].options
    /\ DisplayName(calls[1].result.resources[1]) = N_CACHE
    /\ DisplayName(calls[1].result.resources[2]) = <<"u","p">>

OtherDeclarations(unit) ==
    LET of(list, prefix) ==
            [i \in 1..Len(list) |-> [prefix |-> prefix, name |-> list[i].binding]]
    IN  of(GetList(unit, "hyperdrive"), P_hyperdrive)
        \o of(One(unit, "ai"), P_ai)
        \o of(GetList(unit, "analytics_engine_datasets"), P_analytics)
        \o of(One(unit, "browser"), P_browser)
        \o of(GetList(unit, "dispatch_namespaces"), P_dispatch)

\* C17: every binding declared in hyperdrive, ai,
\* analytics_engine_datasets, browser or dispatch_namespaces of the unit
\* has a resource in the result and a resource binding under its declared
\* name in worker.bindings.
C17_EveryCategoryMigrated ==
    \A n \in 1..Len(calls) :
        Returned(calls[n]) =>
            \A d \in Elements(OtherDeclarations(UnitOf(calls[n]))) :
                /\ Has(calls[n].context.resources, LookupKey(d))
                /\ Has(BindingsOf(calls[n]), d.name)
                /\ Lookup(BindingsOf(calls[n]), d.name).type = "resource"

\* C18: validateConfig reports a duplicate-binding-name error whenever two
\* binding declarations of the configuration have the same name, whichever
\* categories they belong to.
C18_DuplicateNamesReported ==
    LET ds == AllDeclarations(config)
        names == [i \in 1..Len(ds) |-> ds[i].name]
                 \o [i \in 1..Len(GetList(config, "vars")) |-> config.vars[i].k]
    IN  DOMAIN validation # {} =>
            \A i, j \in 1..Len(names) :
                (i # j /\ names[i] = names[j]) =>
                    /\ ~validation.valid
                    /\ \E e \in Elements(validation.errors) :
                          /\ e.error = "Duplicate binding name"
                          /\ e.name = names[i]

\* C19: a direct call of transformBindings returns, and for every binding
\* the unit declares the result has a resource binding under the declared
\* name exactly when context.resources holds the declaration's key; the
\* resourceRef of that binding is the value stored under the key.
C19_BoundExactlyWhenKeyPresent ==
    "bindings" \in DOMAIN direct =>
        \A d \in Elements(AllDeclarations(config)) :
            LET key == d.prefix \o <<":">> \o BindingTransformer_sanitizeId(d.name)
                resources == direct.context.resources
                emitted == /\ Has(direct.bindings, d.name)
                           /\ Lookup(direct.bindings, d.name).type = "resource"
            IN  /\ emitted <=> Has(resources, key)
                /\ emitted => Lookup(direct.bindings, d.name).resourceRef = Lookup(resources, key)

\* C21, as stated: with preserveNames false the display name of every KV,
\* R2, D1 and Queue resource is appName, the id of the resource and the
\* stage joined by "-", the stage being there exactly when the stage option
\* is a non-empty string.
C21_SynthesizedFromId ==
    \A n \in 1..Len(calls) :
        (Returned(calls[n]) /\ ~Preserving(calls[n])) =>
            LET ds == NamedDeclarations(UnitOf(calls[n])) IN
            \A i \in 1..Len(ds) :
                LET r == calls[n].result.resources[i] IN
                DisplayName(r) = Synthesized(calls[n], r.id)

\* C21, amended: with preserveNames false the display name of every KV, R2,
\* D1 and Queue resource is appName, the id of the resource (the word of
\* its category, kv, bucket, db or queue, when the id is empty) and the
\* stage joined by "-", the stage being there exactly when the stage option
\* is a non-empty string.
C21_SynthesizedName ==
    \A n \in 1..Len(calls) :
        (Returned(calls[n]) /\ ~Preserving(calls[n])) =>
            LET ds == NamedDeclarations(UnitOf(calls[n])) IN
            \A i \in 1..Len(ds) :
                LET r == calls[n].result.resources[i] IN
                DisplayName(r) = Synthesized(calls[n], IF r.id = <<>> THEN ds[i].word ELSE r.id)

\* C21 witness: preserveNames false and the empty string as stage; the KV
\* namespace CACHE of the unit with every category is titled <appName>-cache
C21_Witness ==
    /\ calls # <<>>
    /\ Returned(calls[1])
    /\ raw = ComplexUnit
    /\ ~Preserving(calls[1])
    /\ Get(calls[1].options, "stage") = <<>>
    /\ DisplayName(calls[1].result.resources[1]) = Synthesized(calls[1], <<"c","a","c","h","e">>)
    /\ Len(DisplayName(calls[1].result.resources[1])) > Len(<<"c","a","c","h","e">>) + 1

\* the short name a mapper passes to generateVariableName for its category
ShortName(type) ==
    CASE type = T_KV -> <<"k","v">>
      [] type = T_R2 -> <<"b","u","c","k","e","t">>
      [] type = T_D1 -> <<"d","b">>
      [] type = T_Queue -> <<"q","u","e","u","e">>
      [] type = T_DO -> <<"d","o">>

\* how many resources of the type of resources[i] there are up to and
\* including resources[i]
Ordinal(resources, i) ==
    Cardinality({j \in 1..i : resources[j].type = resources[i].type})

\* C22: a resource whose id is empty, "binding" or the short name of its
\* category has the variable name <shortName><ordinal>, ordinal being its
\* 1-based place among the resources of its category in the unit and left
\* out for the first; every other resource has its id as variable name.
C22_PositionalFallback ==
    \A n \in 1..Len(calls) :
        Returned(calls[n]) =>
            LET rs == calls[n].result.resources IN
            \A i \in 1..Len(rs) :
                rs[i].variableName =
                    IF rs[i].id \in {<<>>, <<"b","i","n","d","i","n","g">>, ShortName(rs[i].type)}
                    THEN ShortName(rs[i].type)
                         \o (IF Ordinal(rs, i) = 1 THEN <<>> ELSE DecimalStr(Ordinal(rs, i)))
                    ELSE rs[i].id

\* C22 witness: KV and kv declared in this order are named kv and kv2
C22_Witness ==
    /\ calls # <<>>
    /\ Returned(calls[1])
    /\ Len(calls[1].result.resources) = 2
    /\ calls[1].result.resources[1].type = T_KV
    /\ calls[1].result.resources[2].type = T_KV
    /\ calls[1].result.resources[1].variableName = <<"k","v">>
    /\ calls[1].result.resources[2].variableName = <<"k","v","2">>

\* the categories in the order transform spreads their resources
CategoryOrder == <<T_KV, T_R2, T_D1, T_Queue, T_DO>>

\* the binding names a unit declares in the category, in declaration order
DeclaredNames(unit, type) ==
    LET of(list, nameField) == [i \in 1..Len(list) |-> list[i][nameField]]
    IN  CASE type = T_KV -> of(GetList(unit, "kv_namespaces"), "binding")
          [] type = T_R2 -> of(GetList(unit, "r2_buckets"), "binding")
          [] type = T_D1 -> of(GetList(unit, "d1_databases"), "binding")
          [] type = T_Queue -> of(GetList(GetObject(unit, "queues"), "producers"), "binding")
          [] type = T_DO -> of(GetList(GetObject(unit, "durable_objects"), "bindings"), "name")

\* C23: result.resources holds the KV resources, then the R2, D1, Queue and
\* Durable Object resources, and the resources of one category are one per
\* declaration of the unit, in the order of the declarations.
C23_CanonicalOrder ==
    \A n \in 1..Len(calls) :
        Returned(calls[n]) =>
            LET rs == calls[n].result.resources
                rank(i) == CHOOSE k \in 1..Len(CategoryOrder) : CategoryOrder[k] = rs[i].type
                ofType(t) == SelectSeq(rs, LAMBDA r : r.type = t)
            IN  /\ \A i, j \in 1..Len(rs) : i < j => rank(i) <= rank(j)
                /\ \A k \in 1..Len(CategoryOrder) :
                      LET names == DeclaredNames(UnitOf(calls[n]), CategoryOrder[k])
                          group == ofType(CategoryOrder[k])
                      IN  /\ Len(group) = Len(names)
                          /\ \A i \in 1..Len(names) :
                                group[i].id = ResourceMapper_sanitizeId(toLowerCase(names[i]))

\* C23 witness: the unit with every category, two KV namespaces (CACHE, KV)
\* and two queue producers gives seven resources, cache before kv
C23_Witness ==
    /\ calls # <<>>
    /\ Returned(calls[1])
    /\ Len(calls[1].result.resources) = 7
    /\ calls[1].result.resources[1].id = <<"c","a","c","h","e">>
    /\ calls[1].result.resources[2].id = <<"k","v">>
    /\ calls[1].result.resources[3].type = T_R2
    /\ calls[1].result.resources[7].type = T_DO

\* C24: for every declaration of the transformed unit, the id both
\* ResourceMapper and BindingTransformer derive from the binding name is
\* the name lowercased with every character outside [a-z0-9_] replaced by
\* "_"; deriving the id of that id gives it back; and two declarations of
\* one category whose names normalize to the same id have the same
\* registered key and the same lookup key.
C24_IdNormalization ==
    \A n \in 1..Len(calls) :
        Returned(calls[n]) =>
            LET decls == Declarations(UnitOf(calls[n]))
                rs == calls[n].result.resources
                kept == Elements(LowerLetters) \cup Digits \cup {"_"}
                normalized(name) ==
                    LET l == toLowerCase(name)
                    IN  [i \in 1..Len(l) |-> IF l[i] \in kept THEN l[i] ELSE "_"]
            IN  /\ \A j \in 1..Len(decls) :
                      /\ rs[j].id = normalized(decls[j].name)
                      /\ BindingTransformer_sanitizeId(decls[j].name) = normalized(decls[j].name)
                      /\ ResourceMapper_sanitizeId(toLowerCase(rs[j].id)) = rs[j].id
                      /\ BindingTransformer_sanitizeId(rs[j].id) = rs[j].id
                /\ \A i, j \in 1..Len(decls) :
                      (/\ decls[i].prefix = decls[j].prefix
                       /\ normalized(decls[i].name) = normalized(decls[j].name)) =>
                          /\ resourceKey(rs[i]) = resourceKey(rs[j])
                          /\ LookupKey(decls[i]) = LookupKey(decls[j])
                          /\ LookupKey(decls[i]) = resourceKey(rs[i])

\* C25: a migrate run with --dry-run leaves the file system as it was, no
\* directory and no file created or changed, whatever the configuration and
\* the other options; a run that changed the file system ran without
\* --dry-run.
C25_DryRunWritesNothing ==
    (DOMAIN command # {} /\ command.name = "migrate") =>
        /\ command.options.dryRun => (disk = command.before /\ command.log = <<>>)
        /\ disk # command.before => ~command.options.dryRun

\* C25 witness: an interactive --dry-run run with --no-adopt
\* --no-preserve-names, a stage and an environment, answered with the
\* output directory "out" that does not exist, transformed the unit and
\* left the file system alone
C25_Witness ==
    /\ DOMAIN command # {}
    /\ command.name = "migrate"
    /\ command.options.dryRun
    /\ command.options.interactive
    /\ ~command.options.adopt
    /\ "env" \in DOMAIN command.options
    /\ command.outputDir = "out"
    /\ "out" \notin disk.dirs
    /\ command.exit = 0
    /\ Returned(calls[1])
    /\ calls[1].result.resources # <<>>

\* C26: for every consumer of the transformed unit whose queue name is the
\* queue of a producer the unit declares, the queueRef of its event source
\* is the variableName of the Queue resource built from such a producer.
C26_ConsumerRefersToResource ==
    \A n \in 1..Len(calls) :
        Returned(calls[n]) =>
            LET queues == GetObject(UnitOf(calls[n]), "queues")
                consumers == GetList(queues, "consumers")
                producers == GetList(queues, "producers")
                queueResources == SelectSeq(calls[n].result.resources,
                                            LAMBDA r : r.type = T_Queue)
                eventSources == calls[n].result.workers[1].eventSources
            IN  \A i \in 1..Len(consumers) :
                    (\E j \in 1..Len(producers) : producers[j].queue = consumers[i].queue) =>
                        \E j \in 1..Len(producers) :
                            /\ producers[j].queue = consumers[i].queue
                            /\ eventSources[i].queueRef = queueResources[j].variableName

\* C27: the validate command prints that the configuration is valid only
\* when validateConfig returned no errors for it, and when validateConfig
\* returned an error the command exits with status 1.
C27_ValidOnlyWithoutErrors ==
    (DOMAIN command # {} /\ command.name = "validate") =>
        /\ "Configuration is valid!" \in Elements(command.printed) => validation.errors = <<>>
        /\ validation.errors # <<>> => command.exit = 1

\* C28: after a migrate run without --dry-run whose output directory held
\* .env.example before, that file has the content it had; and when the run
\* reached its write step and completed, alchemy.run.ts, worker-env.d.ts
\* and MIGRATION.md were written one after the other in this order, each
\* now holding the generated content, whether it existed before or not.
C28_EnvExampleKept ==
    LET env == [dir |-> command.outputDir, name |-> ".env.example"]
        written == SelectSeq(command.log, LAMBDA e : e.op = "written")
        generated == generatedFiles(command.outputDir)
    IN  (/\ DOMAIN command # {}
         /\ command.name = "migrate"
         /\ ~command.dryRun
         /\ env \in DOMAIN command.before.files) =>
            /\ env \in DOMAIN disk.files
            /\ disk.files[env] = command.before.files[env]
            /\ command.exit = 0 =>
                  /\ [i \in 1..Len(written) |-> written[i].name]
                        = <<"alchemy.run.ts", "worker-env.d.ts", "MIGRATION.md">>
                  /\ \A i \in {1, 2, 4} :
                        /\ generated[i].path \in DOMAIN disk.files
                        /\ disk.files[generated[i].path] = generated[i].content

\* C28 witness: a run into "out", which held the user's .env.example and
\* alchemy.run.ts; alchemy.run.ts now holds the generated content
C28_Witness ==
    /\ DOMAIN command # {}
    /\ command.name = "migrate"
    /\ ~command.dryRun
    /\ command.exit = 0
    /\ command.outputDir = "out"
    /\ DOMAIN command.before.files = {[dir |-> "out", name |-> ".env.example"],
                                      [dir |-> "out", name |-> "alchemy.run.ts"]}
    /\ disk.files[[dir |-> "out", name |-> ".env.example"]] = [by |-> "user"]
    /\ disk.files[[dir |-> "out", name |-> "alchemy.run.ts"]] = [by |-> "generateAlchemyConfig"]
    /\ Len(command.log) = 4

C30_PrefixTellsType ==
    LET keys == [k \in 1..Len(CategoryOrder) |->
                    resourceKey([type |-> CategoryOrder[k], id |-> <<>>])]
    IN  /\ \A k \in 1..Len(keys) :
              /\ keys[k][Len(keys[k])] = ":"
              /\ \A i \in 1..(Len(keys[k]) - 1) : keys[k][i] # ":"
              /\ \A m \in 1..Len(keys) : m # k => keys[m] # keys[k]
        /\ \A n \in 1..Len(calls) :
              Returned(calls[n]) =>
                  \A r1, r2 \in Elements(calls[n].result.resources) :
                      resourceKey(r1) = resourceKey(r2) => r1.type = r2.type

\* C30 witness: a KV namespace and an R2 bucket both bound as KV have the
\* id "kv" and the keys "kv:kv" and "r2:kv"
C30_Witness ==
    /\ calls # <<>>
    /\ Returned(calls[1])
    /\ Len(calls[1].result.resources) = 2
    /\ calls[1].result.resources[1].type = T_KV
    /\ calls[1].result.resources[2].type = T_R2
    /\ calls[1].result.resources[1].id = calls[1].result.resources[2].id
    /\ resourceKey(calls[1].result.resources[1]) = <<"k","v",":","k","v">>
    /\ resourceKey(calls[1].result.resources[2]) = <<"r","2",":","k","v">>

====
